---- MODULE Spec2Model ----
(***************************************************************************)
(* A model of the green-screen pipeline of src/greenv7.py and of its HTTP  *)
(* front end src/api.py.                                                   *)
(*                                                                         *)
(* Times.  Python floats holding seconds are modelled by integers, on      *)
(* inputs that are whole seconds; MediaInfo reports milliseconds, so the   *)
(* inputs of the duration probe are multiples of 1000.                     *)
(* Optional values.  Python's None is the empty tuple, a value x is <<x>>. *)
(* Indices.  Python's 0-based index i is the model's index i + 1.          *)
(***************************************************************************)
EXTENDS Integers, Sequences, FiniteSets, TLC

VARIABLES
    pc,                 \* position of the code being executed
    \* ---- get_mp4_duration_mediainfo
    filepath,           \* the file handed to the duration probe
    probe_result,       \* what the probe returned
    \* ---- generate_variables
    num_vars,           \* the argument
    gv_i,               \* loop variable i of the for loop
    generated_numbers,  \* the set of numbers drawn so far
    variables,          \* the dictionary being built: i |-> number
    rng,                \* the random source: the stream of fresh numbers
    collisions,         \* draws that hit an already generated number
    draws,              \* calls of random.randint
    \* ---- select_clips_for_duration
    listing,            \* os.listdir(clips_dir), in listing order
    target_duration,
    min_clip_length,
    clip_files,         \* the candidates after the filter and the shuffle
    selected_clips,     \* the returned list
    \* ---- convert_video_format_parallel / combine_videos_for_duration
    input_files,        \* the clips handed to the transcoder
    max_workers,        \* size of the thread pool
    submitted,          \* number of executor.submit calls made
    status,             \* per submitted conversion: queued/running/ok/failed
    collected,          \* number of future.result() calls that returned
    converted_files,    \* the list being returned
    partial_on_fail,    \* whether a failing encoder leaves its output file
    disk_temp,          \* indices i with temp_clip_<i>.mp4 on disk
    manifest,           \* temp_background_input_files.txt: absent or content
    bg_outcome,         \* the return path combine_videos_for_duration took
    \* ---- files of the pipeline and the orchestrators
    bg_file,            \* background_combined.mp4: absent or <<record>>
    final_file,         \* final_output.mp4: absent or <<record>>
    fg_file,            \* foreground.mp4
    run,                \* number of the current run / request
    orchestrator,       \* "main" (CLI) or "api" (POST /generate)
    stage_log,          \* the stages executed by the current run
    composite_bg,       \* the background compositing was invoked with
    response,           \* what the orchestrator reported
    \* ---- _parse_ffmpeg_progress and its caller
    progress            \* the parser's arguments and locals, and its output

probeVars == <<filepath, probe_result>>
genVars == <<num_vars, gv_i, generated_numbers, variables, rng, collisions, draws>>
selectVars == <<listing, target_duration, min_clip_length, clip_files, selected_clips>>
poolVars == <<input_files, max_workers, submitted, status, collected, converted_files>>
combineVars == <<partial_on_fail, disk_temp, manifest, bg_outcome, bg_file>>
pipeVars == <<final_file, fg_file, run, orchestrator, stage_log, composite_bg, response>>
progressVars == <<progress>>
vars == <<pc, probeVars, genVars, selectVars, poolVars, combineVars, pipeVars, progressVars>>

None == <<>>
Some(x) == <<x>>

Min(a, b) == IF a <= b THEN a ELSE b
Max(a, b) == IF a >= b THEN a ELSE b
Range(s) == {s[i] : i \in 1..Len(s)}

\* ---------------------------------------------------------------- bounds
MaxTracks == 3        \* tracks of a probed file
MaxDirFiles == 3      \* files of a clips directory
MaxTarget == 5        \* largest target duration tried by the selector
MaxCollisions == 2    \* repeated draws of generate_variables
MaxInputs == 9        \* clips handed to the transcoder on its own
MaxRuns == 2          \* consecutive runs of an orchestrator
MaxPipeFiles == 2     \* files of the clips directory of a pipeline run
MaxLength == 5        \* longest foreground and background composited
MaxLines == 2         \* lines of a diagnostic stream
MaxLineLen == 3       \* characters of a line of the diagnostic stream

\* The values of the parts a specification does not use.
IdleProbe == filepath = None /\ probe_result = None
IdleGen ==
    /\ num_vars = 0 /\ gv_i = 0 /\ generated_numbers = {} /\ variables = <<>>
    /\ rng = None /\ collisions = 0 /\ draws = 0
IdleSelect ==
    /\ listing = <<>> /\ target_duration = 0 /\ min_clip_length = 0
    /\ clip_files = <<>> /\ selected_clips = <<>>
IdlePool ==
    /\ input_files = <<>> /\ max_workers = 0 /\ submitted = 0 /\ status = <<>>
    /\ collected = 0 /\ converted_files = <<>>
IdleCombine ==
    /\ partial_on_fail = FALSE /\ disk_temp = {} /\ manifest = None
    /\ bg_outcome = "none" /\ bg_file = None
IdlePipe ==
    /\ final_file = None /\ fg_file = None /\ run = 0 /\ orchestrator = "none"
    /\ stage_log = <<>> /\ composite_bg = None /\ response = "none"

IdleProgress == progress = None

(***************************************************************************)
(* Section 1: get_mp4_duration_mediainfo                                   *)
(***************************************************************************)
TrackTypes == {"General", "Video", "Audio"}
\* track.duration: None, or milliseconds
TrackDurations == {None, Some(2000), Some(3000)}
Tracks == [track_type : TrackTypes, duration : TrackDurations]
Extensions == {".mp4", ".M4V", ".mov"}

Lower(ext) == IF ext = ".M4V" THEN ".m4v" ELSE IF ext = ".MP4" THEN ".mp4" ELSE ext

\* line 35: the extension test that only prints a warning
WarnsExtension(f) == Lower(f.ext) \notin {".mp4", ".m4v"}

\* lines 43 and 45: the two branches of the loop body that return
OnlyVideoTrack(track) ==
    track.track_type = "Video" /\ track.duration # None
HasDuration(track) ==
    \/ track.track_type = "Video" /\ track.duration # None
    \/ track.track_type = "General" /\ track.duration # None

\* lines 44 and 46: float(track.duration / 1000)
SecondsOf(ms) == ms \div 1000

\* lines 42-49: the loop over media_info.tracks, from track k on
RECURSIVE ScanTracks(_, _)
ScanTracks(tracks, k) ==
    IF k > Len(tracks) THEN None
    ELSE IF HasDuration(tracks[k]) THEN Some(SecondsOf(tracks[k].duration[1]))
    ELSE ScanTracks(tracks, k + 1)

\* lines 31-54.  MediaInfo.parse raising is caught by the except clause of
\* line 51, which returns None.
get_mp4_duration_mediainfo(f) ==
    IF ~f.exists THEN None
    ELSE IF f.parse = "error" THEN None
    ELSE ScanTracks(f.tracks, 1)

TrackLists == UNION {[1..n -> Tracks] : n \in 0..MaxTracks}
ProbeInputs ==
    [exists : BOOLEAN, ext : Extensions, parse : {"ok", "error"}, tracks : TrackLists]

InitProbe ==
    /\ pc = "probe"
    /\ filepath \in {Some(f) : f \in ProbeInputs}
    /\ probe_result = None
    /\ IdleGen /\ IdleSelect /\ IdlePool /\ IdleCombine /\ IdlePipe
    /\ IdleProgress

Probe ==
    /\ pc = "probe"
    /\ probe_result' = Some(get_mp4_duration_mediainfo(filepath[1]))
    /\ pc' = "probe_done"
    /\ UNCHANGED <<filepath, genVars, selectVars, poolVars, combineVars, pipeVars>>
    /\ UNCHANGED progress

NextProbe == Probe
SpecProbe == InitProbe /\ [][NextProbe]_vars

\* C5: the probe never raises; it returns None for a missing file, a failed
\* parse or a file without a Video or General track carrying a duration, and
\* otherwise the duration, in seconds, of the first such track in track
\* order; the extension does not change the result.
C5_ProbeResult ==
    pc = "probe_done" =>
        LET f == filepath[1]
            r == probe_result[1]
            Carries(k) == /\ f.tracks[k].track_type \in {"Video", "General"}
                          /\ f.tracks[k].duration # None
            Hits == {k \in 1..Len(f.tracks) : Carries(k)}
        IN  /\ Len(probe_result) = 1
            /\ IF ~f.exists \/ f.parse = "error" \/ Hits = {}
               THEN r = None
               ELSE \E k \in Hits :
                       /\ \A j \in Hits : k <= j
                       /\ Len(r) = 1
                       /\ r[1] * 1000 = f.tracks[k].duration[1]
            /\ \A e \in Extensions :
                   get_mp4_duration_mediainfo([f EXCEPT !.ext = e]) = r

\* a file with a wrong extension whose second track is the first to carry a
\* duration, probed successfully
C5_Witness ==
    /\ pc = "probe_done"
    /\ WarnsExtension(filepath[1])
    /\ Len(filepath[1].tracks) >= 2
    /\ filepath[1].tracks[1].duration = None
    /\ filepath[1].tracks[2].track_type = "General"
    /\ probe_result = Some(Some(3))

(***************************************************************************)
(* Section 2: generate_variables                                           *)
(***************************************************************************)
RandLow == 1
RandHigh == 99
NumVarsLimit == 99

\* The argument: an int, or a value of another type (a float, a string).
NumVarsInputs ==
    [is_int : {TRUE}, val : -1..(NumVarsLimit + 1)] \cup [is_int : {FALSE}, val : {3}]

\* random.randint(1, 99).  The fresh numbers come in the order of a stream
\* that visits every number of 1..99; a draw may also repeat a number that
\* was drawn before.
Streams == {[start |-> 0, stride |-> 1], [start |-> 97, stride |-> 98]}
StreamAt(r, p) == ((r.start + p * r.stride) % (RandHigh - RandLow + 1)) + RandLow

\* line 79: random_number not in generated_numbers
AcceptAnyNumber(random_number, generated) == TRUE
IsFresh(random_number, generated) == random_number \notin generated

InitGenVars ==
    /\ pc = "gv_start"
    /\ num_vars \in NumVarsInputs
    /\ gv_i = 0 /\ generated_numbers = {} /\ variables = <<>>
    /\ rng \in {Some(r) : r \in Streams}
    /\ collisions = 0 /\ draws = 0
    /\ IdleProbe /\ IdleSelect /\ IdlePool /\ IdleCombine /\ IdlePipe
    /\ IdleProgress

\* lines 68-71: the two argument checks
GvRaise ==
    /\ pc = "gv_start"
    /\ \/ ~num_vars.is_int
       \/ num_vars.val < 1
       \/ num_vars.val > NumVarsLimit
    /\ pc' = "gv_ValueError"
    /\ UNCHANGED <<probeVars, genVars, selectVars, poolVars, combineVars, pipeVars>>
    /\ UNCHANGED progress

\* lines 73-75: the loop is entered
GvEnter ==
    /\ pc = "gv_start"
    /\ num_vars.is_int /\ num_vars.val >= 1 /\ num_vars.val <= NumVarsLimit
    /\ pc' = "gv_loop"
    /\ gv_i' = 1
    /\ UNCHANGED <<num_vars, generated_numbers, variables, rng, collisions, draws>>
    /\ UNCHANGED <<probeVars, selectVars, poolVars, combineVars, pipeVars>>
    /\ UNCHANGED progress

\* lines 77-82: one iteration of the while loop
GvDraw ==
    /\ pc = "gv_loop"
    /\ gv_i <= num_vars.val
    /\ \E repeat \in BOOLEAN :
         /\ repeat => (collisions < MaxCollisions /\ generated_numbers # {})
         /\ LET random_number ==
                    IF repeat THEN variables[Len(variables)]
                    ELSE StreamAt(rng[1], Cardinality(generated_numbers))
            IN  IF IsFresh(random_number, generated_numbers)
                THEN /\ generated_numbers' = generated_numbers \cup {random_number}
                     /\ variables' = Append(variables, random_number)
                     /\ gv_i' = gv_i + 1
                     /\ UNCHANGED collisions
                ELSE /\ collisions' = collisions + 1
                     /\ UNCHANGED <<generated_numbers, variables, gv_i>>
    /\ draws' = draws + 1
    /\ UNCHANGED <<pc, num_vars, rng>>
    /\ UNCHANGED <<probeVars, selectVars, poolVars, combineVars, pipeVars>>
    /\ UNCHANGED progress

\* line 83
GvReturn ==
    /\ pc = "gv_loop"
    /\ gv_i > num_vars.val
    /\ pc' = "gv_returned"
    /\ UNCHANGED <<probeVars, genVars, selectVars, poolVars, combineVars, pipeVars>>
    /\ UNCHANGED progress

NextGenVars == GvRaise \/ GvEnter \/ GvDraw \/ GvReturn
\* The loop is sequential code that keeps running, and the random source
\* repeats itself only MaxCollisions times.
SpecGenVars == InitGenVars /\ [][NextGenVars]_vars /\ WF_vars(NextGenVars)

C7_Post ==
    /\ pc = "gv_returned" =>
          /\ num_vars.is_int /\ num_vars.val \in 1..99
          /\ DOMAIN variables = 1..num_vars.val
          /\ \A a \in DOMAIN variables : variables[a] \in 1..99
          /\ \A a, b \in DOMAIN variables : a # b => variables[a] # variables[b]
    /\ pc = "gv_ValueError" =>
          /\ ~(num_vars.is_int /\ num_vars.val \in 1..99)
          /\ draws = 0
\* C7: for an integer num_vars in 1..99 generate_variables terminates and
\* returns exactly the keys var_1..var_num_vars with pairwise distinct values
\* in 1..99; for any other argument it raises ValueError without drawing.
C7_GenerateVariables ==
    /\ []C7_Post
    /\ <>(pc \in {"gv_returned", "gv_ValueError"})

\* all 99 numbers handed out, after draws that had to be repeated
C7_Witness ==
    /\ pc = "gv_returned"
    /\ num_vars.val = 99
    /\ Cardinality(generated_numbers) = 99
    /\ collisions = MaxCollisions

(***************************************************************************)
(* Section 3: select_clips_for_duration                                    *)
(***************************************************************************)
MinClipLengthDefault == 2

\* A directory entry: its name, its extension, and what ffmpeg.probe and the
\* float() of line 165 give for it: None when either raises, else seconds.
ClipKinds ==
    { [ext |-> ".txt", probe |-> Some(3)],
      [ext |-> ".mp4", probe |-> None],
      [ext |-> ".mp4", probe |-> Some(1)],
      [ext |-> ".mp4", probe |-> Some(2)],
      [ext |-> ".MP4", probe |-> Some(3)] }
Named(kinds) == [i \in DOMAIN kinds |-> [name |-> i, ext |-> kinds[i].ext, probe |-> kinds[i].probe]]
Listings(maxFiles, kinds) == UNION {{Named(k) : k \in [1..n -> kinds]} : n \in 0..maxFiles}

\* line 158: f.lower().endswith(".mp4")
IsMp4(f) == Lower(f.ext) = ".mp4"

RECURSIVE FilterMp4(_)
FilterMp4(files) ==
    IF files = <<>> THEN <<>>
    ELSE IF IsMp4(Head(files)) THEN <<Head(files)>> \o FilterMp4(Tail(files))
    ELSE FilterMp4(Tail(files))

\* line 159: random.shuffle leaves any arrangement of the list
Shuffles(files) ==
    LET n == Len(files)
        Perms == {p \in [1..n -> 1..n] : \A a, b \in 1..n : a # b => p[a] # p[b]}
    IN  {[i \in 1..n |-> files[p[i]]] : p \in Perms}

\* line 167
MeetsMinLength(duration, minLength) == duration >= minLength

\* line 170
ReversedComparison(total, target) == total <= target
StrictlyExceeds(total, target) == total > target
ReachedTarget(total, target) == total >= target

\* lines 161-173: the loop over clip_files, from clip k on
RECURSIVE ScanClips(_, _, _, _, _, _)
ScanClips(clips, k, selected, total, target, minLength) ==
    IF k > Len(clips) THEN selected
    ELSE IF clips[k].probe = None
         THEN ScanClips(clips, k + 1, selected, total, target, minLength)
    ELSE IF MeetsMinLength(clips[k].probe[1], minLength)
         THEN IF ReachedTarget(total + clips[k].probe[1], target)
              THEN Append(selected, clips[k])
              ELSE ScanClips(clips, k + 1, Append(selected, clips[k]),
                             total + clips[k].probe[1], target, minLength)
    ELSE ScanClips(clips, k + 1, selected, total, target, minLength)

\* lines 155-177, on the shuffled candidates
select_clips_for_duration(shuffled, target, minLength) ==
    ScanClips(shuffled, 1, <<>>, 0, target, minLength)

RECURSIVE SumDurations(_)
SumDurations(clips) ==
    IF clips = <<>> THEN 0 ELSE Head(clips).probe[1] + SumDurations(Tail(clips))

InitSelect ==
    /\ pc = "select"
    /\ listing \in Listings(MaxDirFiles, ClipKinds)
    /\ target_duration \in 0..MaxTarget
    /\ min_clip_length \in {MinClipLengthDefault, MinClipLengthDefault + 1}
    /\ clip_files = <<>> /\ selected_clips = <<>>
    /\ IdleProbe /\ IdleGen /\ IdlePool /\ IdleCombine /\ IdlePipe
    /\ IdleProgress

Select ==
    /\ pc = "select"
    /\ \E shuffled \in Shuffles(FilterMp4(listing)) :
         /\ clip_files' = shuffled
         /\ selected_clips' =
                select_clips_for_duration(shuffled, target_duration, min_clip_length)
    /\ pc' = "select_done"
    /\ UNCHANGED <<listing, target_duration, min_clip_length>>
    /\ UNCHANGED <<probeVars, genVars, poolVars, combineVars, pipeVars>>
    /\ UNCHANGED progress

NextSelect == Select
SpecSelect == InitSelect /\ [][NextSelect]_vars

\* the readable .mp4 clips of at least min_clip_length of the directory
EligiblePool ==
    {i \in DOMAIN listing :
        /\ listing[i].ext \in {".mp4", ".MP4"}
        /\ listing[i].probe # None
        /\ listing[i].probe[1] >= min_clip_length}
SelectedNames == {selected_clips[i].name : i \in DOMAIN selected_clips}

\* C1: the returned clips have a combined duration of at least
\* target_duration, unless the whole eligible pool of the directory was
\* selected, and then the whole pool is what is returned.
C1_MeetsTargetOrExhausts ==
    pc = "select_done" =>
        \/ SumDurations(selected_clips) >= target_duration
        \/ SelectedNames = EligiblePool

\* a pool that could have met the target, scanned past a short clip
C1_Witness ==
    /\ pc = "select_done"
    /\ Len(selected_clips) = 2
    /\ Cardinality(EligiblePool) = 3
    /\ SumDurations(selected_clips) >= target_duration
    /\ target_duration > 3

\* the position in clip_files of the j-th selected clip
PosOf(j) == CHOOSE k \in DOMAIN clip_files : clip_files[k] = selected_clips[j]

\* C6: the selection is one pass in shuffle order: no clip twice, no short
\* or unreadable clip, no eligible clip passed over (an unreadable clip does
\* not end the scan), and it stops at the first clip that brings the total
\* to target_duration: without the last selected clip the total is below a
\* positive target_duration.
C6_GreedyScan ==
    pc = "select_done" =>
        LET n == Len(selected_clips) IN
        /\ \A j \in 1..n : selected_clips[j] \in Range(clip_files)
        /\ \A a, b \in 1..n : a < b => PosOf(a) < PosOf(b)
        /\ \A j \in 1..n :
              /\ selected_clips[j].probe # None
              /\ selected_clips[j].probe[1] >= min_clip_length
        /\ \A k \in DOMAIN clip_files :
              (/\ clip_files[k].probe # None
               /\ clip_files[k].probe[1] >= min_clip_length
               /\ \/ n = 0
                  \/ SumDurations(selected_clips) < target_duration
                  \/ k < PosOf(n))
                  => clip_files[k] \in Range(selected_clips)
        /\ (target_duration > 0 /\ n > 0) =>
              SumDurations(SubSeq(selected_clips, 1, n - 1)) < target_duration

\* an unreadable clip was met first, and the scan went on to select two
\* clips, the second one reaching the target exactly
C6_Witness ==
    /\ pc = "select_done"
    /\ Len(clip_files) = 3
    /\ clip_files[1].probe = None
    /\ Len(selected_clips) = 2
    /\ SumDurations(selected_clips) = target_duration

(***************************************************************************)
(* Section 4: convert_video_format_parallel and                            *)
(* combine_videos_for_duration                                             *)
(***************************************************************************)
WorkerCap == 8

\* line 236: max_workers=min(8, len(input_files))
PoolSize(n) == Min(WorkerCap, n)

\* line 130: output_file = f"temp_clip_{i}.{target_format}"; a temporary file
\* is named by its index
SameOutputFile(i) == 1
OutputFile(i) == i

\* line 128: a ThreadPoolExecutor of max_workers threads runs a queued call
\* only on a thread that is not running one
StartsUnbounded(running, workers) == TRUE
CanStart(running, workers) == running < workers

Running == Cardinality({i \in DOMAIN status : status[i] = "running"})
Finished(i) == status[i] \in {"ok", "failed"}

\* line 222 has returned input_files; lines 224-226
CombineNoInput ==
    /\ pc = "selected"
    /\ input_files = <<>>
    /\ bg_outcome' = "no_input"
    /\ pc' = "bg_returned"
    /\ UNCHANGED <<partial_on_fail, disk_temp, manifest, bg_file>>
    /\ UNCHANGED <<probeVars, genVars, selectVars, poolVars, pipeVars>>
    /\ UNCHANGED progress

\* lines 229-238 and 125-128: the call, and the pool is created
CombineStartConvert ==
    /\ pc = "selected"
    /\ input_files # <<>>
    /\ max_workers' = PoolSize(Len(input_files))
    /\ submitted' = 0 /\ status' = <<>> /\ collected' = 0 /\ converted_files' = <<>>
    /\ pc' = "convert"
    /\ UNCHANGED <<input_files, probeVars, genVars, selectVars, combineVars, pipeVars>>
    /\ UNCHANGED progress

\* lines 129-137: one iteration of the submitting loop
Submit ==
    /\ pc = "convert"
    /\ submitted < Len(input_files)
    /\ submitted' = submitted + 1
    /\ status' = Append(status, "queued")
    /\ UNCHANGED <<pc, input_files, max_workers, collected, converted_files>>
    /\ UNCHANGED <<probeVars, genVars, selectVars, combineVars, pipeVars>>
    /\ UNCHANGED progress

\* a pool thread takes the oldest queued call: convert_video_format begins
WorkerStart ==
    /\ pc = "convert"
    /\ \E i \in DOMAIN status :
         /\ status[i] = "queued"
         /\ \A j \in 1..(i - 1) : status[j] # "queued"
         /\ CanStart(Running, max_workers)
         /\ status' = [status EXCEPT ![i] = "running"]
    /\ UNCHANGED <<pc, input_files, max_workers, submitted, collected, converted_files>>
    /\ UNCHANGED <<probeVars, genVars, selectVars, combineVars, pipeVars>>
    /\ UNCHANGED progress

\* lines 107-115: the encoder of call i ends; on success temp_clip_<i> is
\* written, on failure the encoder may have left it behind
WorkerFinish ==
    /\ pc = "convert"
    /\ \E i \in DOMAIN status, ok \in BOOLEAN :
         /\ status[i] = "running"
         /\ status' = [status EXCEPT ![i] = IF ok THEN "ok" ELSE "failed"]
         /\ disk_temp' = IF ok \/ partial_on_fail
                          THEN disk_temp \cup {OutputFile(i)} ELSE disk_temp
    /\ UNCHANGED <<pc, input_files, max_workers, submitted, collected, converted_files>>
    /\ UNCHANGED <<partial_on_fail, manifest, bg_outcome, bg_file>>
    /\ UNCHANGED <<probeVars, genVars, selectVars, pipeVars>>
    /\ UNCHANGED progress

\* lines 139-144: one iteration of the collecting loop; future.result()
\* blocks until that call has ended
Collect ==
    /\ pc = "convert"
    /\ submitted = Len(input_files)
    /\ collected < Len(input_files)
    /\ Finished(collected + 1)
    /\ collected' = collected + 1
    /\ converted_files' = IF status[collected + 1] = "ok"
                           THEN Append(converted_files, OutputFile(collected + 1))
                           ELSE converted_files
    /\ UNCHANGED <<pc, input_files, max_workers, submitted, status>>
    /\ UNCHANGED <<probeVars, genVars, selectVars, combineVars, pipeVars>>
    /\ UNCHANGED progress

\* line 146
ConvertReturn ==
    /\ pc = "convert"
    /\ submitted = Len(input_files)
    /\ collected = Len(input_files)
    /\ pc' = "after_convert"
    /\ UNCHANGED <<probeVars, genVars, selectVars, poolVars, combineVars, pipeVars>>
    /\ UNCHANGED progress

\* lines 240-242
CombineNoConverted ==
    /\ pc = "after_convert"
    /\ converted_files = <<>>
    /\ bg_outcome' = "none_converted"
    /\ pc' = "bg_returned"
    /\ UNCHANGED <<partial_on_fail, disk_temp, manifest, bg_file>>
    /\ UNCHANGED <<probeVars, genVars, selectVars, poolVars, pipeVars>>
    /\ UNCHANGED progress

\* lines 244-253: the manifest is written; when open() raises the file is
\* as it was, when a write raises a truncated file is left
CombineWriteManifest ==
    /\ pc = "after_convert"
    /\ converted_files # <<>>
    /\ \/ /\ manifest' = Some(converted_files)
          /\ pc' = "concat"
          /\ UNCHANGED bg_outcome
       \/ /\ manifest' \in {manifest, Some(<<>>)}
          /\ bg_outcome' = "manifest_error"
          /\ pc' = "bg_returned"
    /\ UNCHANGED <<partial_on_fail, disk_temp, bg_file>>
    /\ UNCHANGED <<probeVars, genVars, selectVars, poolVars, pipeVars>>
    /\ UNCHANGED progress

\* the length of the concatenation of the converted clips
RECURSIVE ConcatLength(_)
ConcatLength(files) ==
    IF files = <<>> THEN 0
    ELSE input_files[Head(files)].probe[1] + ConcatLength(Tail(files))

ConcatOutcomes == {"ok", "nonzero", "FileNotFoundError", "Exception"}

\* lines 255-292: the encoder concatenates, and the finally clause removes
\* the manifest and the files of converted_files.  An encoder that fails
\* leaves the output as it was, or leaves a broken one.
CombineConcat ==
    /\ pc = "concat"
    /\ \E outcome \in ConcatOutcomes :
         /\ bg_outcome' = outcome
         /\ \/ /\ outcome = "ok"
               /\ bg_file' = Some([run |-> run, len |-> ConcatLength(manifest[1]),
                                     complete |-> TRUE])
            \/ /\ outcome = "nonzero"
               /\ bg_file' \in {bg_file, Some([run |-> run, len |-> 0, complete |-> FALSE])}
            \/ /\ outcome \in {"FileNotFoundError", "Exception"}
               /\ UNCHANGED bg_file
    /\ manifest' = None
    /\ disk_temp' = disk_temp \ Range(converted_files)
    /\ pc' = "bg_returned"
    /\ UNCHANGED partial_on_fail
    /\ UNCHANGED <<probeVars, genVars, selectVars, poolVars, pipeVars>>
    /\ UNCHANGED progress

\* combine_videos_for_duration on its own, from the return of line 222
TranscoderInputs ==
    {[i \in 1..n |-> [name |-> i, ext |-> ".mp4", probe |-> Some(MinClipLengthDefault)]] :
        n \in 0..MaxInputs}

InitCombine ==
    /\ pc = "selected"
    /\ input_files \in TranscoderInputs
    /\ max_workers = 0 /\ submitted = 0 /\ status = <<>>
    /\ collected = 0 /\ converted_files = <<>>
    /\ partial_on_fail \in BOOLEAN
    /\ disk_temp = {} /\ manifest = None /\ bg_outcome = "none" /\ bg_file = None
    /\ final_file = None /\ fg_file = None /\ run = 1 /\ orchestrator = "none"
    /\ stage_log = <<>> /\ composite_bg = None /\ response = "none"
    /\ IdleProbe /\ IdleGen /\ IdleSelect
    /\ IdleProgress

NextCombine ==
    \/ CombineNoInput
    \/ CombineStartConvert
    \/ Submit
    \/ WorkerStart
    \/ WorkerFinish
    \/ Collect
    \/ ConvertReturn
    \/ CombineNoConverted
    \/ CombineWriteManifest
    \/ CombineConcat
SpecCombine == InitCombine /\ [][NextCombine]_vars

\* C4: while convert_video_format_parallel runs, at most max_workers
\* encoders run at the same time, and called from
\* combine_videos_for_duration max_workers is min(8, number of selected
\* clips), which is at least 1 and at most 8.
C4_BoundedParallelism ==
    pc = "convert" =>
        /\ Running <= max_workers
        /\ max_workers = (IF Len(input_files) < 8 THEN Len(input_files) ELSE 8)
        /\ max_workers >= 1
        /\ max_workers <= 8

\* nine clips: eight encoders run and the ninth call waits in the queue
C4_Witness ==
    /\ pc = "convert"
    /\ Len(input_files) = 9
    /\ Running = 8
    /\ \E i \in DOMAIN status : status[i] = "queued"

\* C8 (as claimed): on every return path of combine_videos_for_duration
\* after conversion has begun, neither the manifest nor any temp_clip_<i>
\* file of the call is left on disk.
C8_NoTempArtefacts ==
    (pc = "bg_returned" /\ bg_outcome # "no_input") =>
        /\ manifest = None
        /\ disk_temp = {}

\* C10: whatever the order in which the conversions end,
\* convert_video_format_parallel returns the outputs of exactly the
\* conversions that succeeded, each once and in the order of their inputs,
\* input i having been written to its own temp_clip_<i>; the manifest is
\* written only when every conversion has ended, and lists these files in
\* the same order.
C10_OrderedOutputs ==
    /\ [](/\ pc = "after_convert" =>
               /\ \A a, b \in DOMAIN converted_files :
                     a < b => converted_files[a] < converted_files[b]
               /\ Range(converted_files) =
                     {i \in 1..Len(input_files) : status[i] = "ok"}
               /\ Range(converted_files) \subseteq disk_temp
          /\ pc = "convert" =>
               /\ \A a, b \in DOMAIN converted_files :
                     a < b => converted_files[a] < converted_files[b]
               /\ Range(converted_files) = {i \in 1..collected : status[i] = "ok"}
          /\ pc = "concat" =>
               /\ manifest = Some(converted_files)
               /\ Range(manifest[1]) = {i \in 1..Len(input_files) : status[i] = "ok"})
    /\ [][(manifest' # manifest /\ manifest' # None) =>
            /\ pc = "after_convert"
            /\ Len(status) = Len(input_files)
            /\ \A i \in DOMAIN status : Finished(i)]_vars

\* the third conversion ended before the first one, the second one failed,
\* and the manifest lists the first and the third
C10_Witness ==
    /\ pc = "concat"
    /\ Len(input_files) = 3
    /\ status = <<"ok", "failed", "ok">>
    /\ manifest = Some(<<1, 3>>)

(***************************************************************************)
(* Section 5: combine_green_screen_foreground_length                       *)
(***************************************************************************)
\* The filter graph of lines 335-337 and the output option of line 345, by
\* the lengths of the streams.
\* [1:v]trim=end=<foreground_duration>
Trim(length, end) == Min(length, end)
\* [bg_trimmed][fg]overlay, with the filter's default end-of-stream options:
\* the last frame of the input that ends first is repeated until the other
\* input ends
Overlay(main, overlaid) == Max(main, overlaid)
\* -t <foreground_duration>
OutputLimit(length, t) == Min(length, t)

\* lines 330-347: the encoder command, by the length of the video it writes
BackgroundLength(background, foreground_duration) == background
CompositeVideoLength(background, foreground_duration) ==
    OutputLimit(Overlay(Trim(background, foreground_duration), foreground_duration),
                foreground_duration)

\* the length of a written file: that of its longest stream
FileLength(f) == IF f.audio = None THEN f.video ELSE Max(f.video, f.audio[1])

CompositeOutcomes == {"ok", "nonzero", "FileNotFoundError"}
Broken == [run |-> run, video |-> 0, audio |-> None, complete |-> FALSE]

\* lines 310-368, the whole call.  ffprobe failing (CalledProcessError) or
\* printing no number (ValueError) is fg_file.ffprobe = None.  An encoder
\* that fails leaves the output as it was, or leaves a broken one; it cannot
\* succeed on a broken background.
Composite ==
    /\ pc = "composite"
    /\ composite_bg' = Some(bg_file)
    /\ \E outcome \in {"fg_missing", "bg_missing", "probe_error"} \cup CompositeOutcomes :
         /\ outcome = "fg_missing" <=> ~fg_file.exists
         /\ outcome = "bg_missing" <=> (fg_file.exists /\ bg_file = None)
         /\ outcome = "probe_error" <=>
               (fg_file.exists /\ bg_file # None /\ fg_file.ffprobe = None)
         /\ outcome = "ok" => bg_file[1].complete
         /\ stage_log' = Append(stage_log, [stage |-> "composite", outcome |-> outcome])
         /\ \/ /\ outcome = "ok"
               /\ final_file' =
                     Some([run |-> run,
                           video |-> CompositeVideoLength(bg_file[1].len, fg_file.ffprobe[1]),
                           audio |-> IF fg_file.audio
                                     THEN Some(OutputLimit(fg_file.ffprobe[1], fg_file.ffprobe[1]))
                                     ELSE None,
                           complete |-> TRUE])
            \/ /\ outcome = "nonzero"
               /\ final_file' \in {final_file, Some(Broken)}
            \/ /\ outcome \notin {"ok", "nonzero"}
               /\ UNCHANGED final_file
    /\ pc' = "composited"
    /\ UNCHANGED <<fg_file, run, orchestrator, response>>
    /\ UNCHANGED <<probeVars, genVars, selectVars, poolVars, combineVars>>
    /\ UNCHANGED progress

\* a foreground of d seconds, as the two probes see it
Foreground(exists, parse, d, ffprobe_ok, audio) ==
    [exists |-> exists, ext |-> ".mp4", parse |-> parse,
     tracks |-> <<[track_type |-> "General", duration |-> Some(1000 * d)]>>,
     ffprobe |-> IF ffprobe_ok THEN Some(d) ELSE None, audio |-> audio]

InitComposite ==
    /\ pc = "composite"
    /\ run = 1
    /\ \E exists, ffprobe_ok, audio \in BOOLEAN, d \in 1..MaxLength :
         fg_file = Foreground(exists, "ok", d, ffprobe_ok, audio)
    /\ bg_file \in {None} \cup
         {Some([run |-> 1, len |-> l, complete |-> c]) : l \in 0..MaxLength, c \in BOOLEAN}
    /\ final_file = None /\ orchestrator = "none" /\ stage_log = <<>>
    /\ composite_bg = None /\ response = "none"
    /\ partial_on_fail = FALSE /\ disk_temp = {} /\ manifest = None /\ bg_outcome = "none"
    /\ IdleProbe /\ IdleGen /\ IdleSelect /\ IdlePool
    /\ IdleProgress

NextComposite == Composite
SpecComposite == InitComposite /\ [][NextComposite]_vars

Composited(outcome) ==
    /\ pc = "composited"
    /\ stage_log # <<>>
    /\ stage_log[Len(stage_log)] = [stage |-> "composite", outcome |-> outcome]

\* C2: whenever compositing succeeds, the written video has the length of
\* the foreground, whether the background is longer or shorter than it.
C2_TrimmedToForeground ==
    Composited("ok") =>
        /\ final_file # None
        /\ final_file[1].video = fg_file.ffprobe[1]
        /\ FileLength(final_file[1]) = fg_file.ffprobe[1]

\* a background shorter than the foreground, composited
C2_Witness ==
    /\ Composited("ok")
    /\ bg_file[1].len < fg_file.ffprobe[1]
    /\ bg_file[1].len > 0
    /\ ~fg_file.audio

(***************************************************************************)
(* Section 6: the orchestrators, main() and POST /generate                 *)
(***************************************************************************)
PipeClipKinds ==
    { [ext |-> ".mp4", probe |-> Some(MinClipLengthDefault)],
      [ext |-> ".mp4", probe |-> None] }
PipeForegrounds ==
    { Foreground(TRUE, "ok", 3, TRUE, TRUE),
      Foreground(TRUE, "ok", 3, FALSE, TRUE),
      Foreground(TRUE, "error", 3, TRUE, FALSE) }
Orchestrators == {"main", "api"}

InitPipeline ==
    /\ pc = "idle"
    /\ run = 0
    /\ orchestrator = "none"
    /\ fg_file = Foreground(FALSE, "ok", 3, TRUE, TRUE)
    /\ bg_file = None /\ final_file = None
    /\ stage_log = <<>> /\ composite_bg = None /\ response = "none"
    /\ partial_on_fail \in BOOLEAN
    /\ disk_temp = {} /\ manifest = None /\ bg_outcome = "none"
    /\ IdleProbe /\ IdleGen /\ IdleSelect /\ IdlePool
    /\ IdleProgress

\* A run begins: the CLI is started (its foreground.mp4 may be missing), or
\* a request arrives and lines 14-16 of api.py write the upload to
\* foreground.mp4.  The files of earlier runs are still on disk.
RunStart ==
    /\ pc = "idle"
    /\ run < MaxRuns
    /\ run' = run + 1
    /\ \E o \in Orchestrators :
         /\ orchestrator' = o
         /\ pc' = IF o = "main" THEN "main_start" ELSE "api_start"
         /\ fg_file' \in PipeForegrounds \cup
                (IF o = "main" THEN {Foreground(FALSE, "ok", 3, TRUE, TRUE)} ELSE {})
    /\ listing' \in Listings(MaxPipeFiles, PipeClipKinds)
    /\ target_duration' = 0 /\ min_clip_length' = 0
    /\ clip_files' = <<>> /\ selected_clips' = <<>>
    /\ input_files' = <<>> /\ max_workers' = 0 /\ submitted' = 0 /\ status' = <<>>
    /\ collected' = 0 /\ converted_files' = <<>>
    /\ bg_outcome' = "none"
    /\ stage_log' = <<>> /\ composite_bg' = None /\ response' = "none"
    /\ UNCHANGED <<partial_on_fail, disk_temp, manifest, bg_file, final_file>>
    /\ UNCHANGED <<probeVars, genVars>>
    /\ UNCHANGED progress

ProbeStage(d) == [stage |-> "probe", outcome |-> IF d = None THEN "none" ELSE "ok"]

\* greenv7.py lines 390-393: the selected category does not exist
MainCategoryMissing ==
    /\ pc = "main_start"
    /\ response' = "category_missing"
    /\ pc' = "idle"
    /\ UNCHANGED <<final_file, fg_file, run, orchestrator, stage_log, composite_bg>>
    /\ UNCHANGED <<probeVars, genVars, selectVars, poolVars, combineVars>>
    /\ UNCHANGED progress

\* greenv7.py lines 399-404
MainProbe ==
    /\ pc = "main_start"
    /\ LET duration == get_mp4_duration_mediainfo(fg_file) IN
         /\ stage_log' = Append(stage_log, ProbeStage(duration))
         /\ IF duration = None
            THEN /\ response' = "aborted_probe"
                 /\ pc' = "idle"
                 /\ UNCHANGED <<target_duration, min_clip_length>>
            ELSE /\ target_duration' = duration[1]
                 /\ min_clip_length' = MinClipLengthDefault
                 /\ pc' = "combine_start"
                 /\ UNCHANGED response
    /\ UNCHANGED <<listing, clip_files, selected_clips>>
    /\ UNCHANGED <<final_file, fg_file, run, orchestrator, composite_bg>>
    /\ UNCHANGED <<probeVars, genVars, poolVars, combineVars>>
    /\ UNCHANGED progress

\* api.py lines 18-21
ApiProbe ==
    /\ pc = "api_start"
    /\ LET duration == get_mp4_duration_mediainfo(fg_file) IN
         /\ stage_log' = Append(stage_log, ProbeStage(duration))
         /\ IF duration = None
            THEN /\ response' = "error"
                 /\ pc' = "idle"
                 /\ UNCHANGED <<target_duration, min_clip_length>>
            ELSE /\ target_duration' = duration[1]
                 /\ min_clip_length' = MinClipLengthDefault
                 /\ pc' = "combine_start"
                 /\ UNCHANGED response
    /\ UNCHANGED <<listing, clip_files, selected_clips>>
    /\ UNCHANGED <<final_file, fg_file, run, orchestrator, composite_bg>>
    /\ UNCHANGED <<probeVars, genVars, poolVars, combineVars>>
    /\ UNCHANGED progress

\* greenv7.py line 222, called from line 414 or from api.py line 28
CombineSelect ==
    /\ pc = "combine_start"
    /\ \E shuffled \in Shuffles(FilterMp4(listing)) :
         /\ clip_files' = shuffled
         /\ selected_clips' =
                select_clips_for_duration(shuffled, target_duration, min_clip_length)
         /\ input_files' =
                select_clips_for_duration(shuffled, target_duration, min_clip_length)
    /\ pc' = "selected"
    /\ UNCHANGED <<listing, target_duration, min_clip_length>>
    /\ UNCHANGED <<max_workers, submitted, status, collected, converted_files>>
    /\ UNCHANGED <<probeVars, genVars, combineVars, pipeVars>>
    /\ UNCHANGED progress

BackgroundStage == [stage |-> "background", outcome |-> bg_outcome]

\* greenv7.py lines 426-428: the background file exists, or the run stops
MainCheckBackground ==
    /\ pc = "bg_returned"
    /\ orchestrator = "main"
    /\ stage_log' = Append(stage_log, BackgroundStage)
    /\ IF bg_file = None
       THEN response' = "aborted_background" /\ pc' = "idle"
       ELSE pc' = "composite" /\ UNCHANGED response
    /\ UNCHANGED <<final_file, fg_file, run, orchestrator, composite_bg>>
    /\ UNCHANGED <<probeVars, genVars, selectVars, poolVars, combineVars>>
    /\ UNCHANGED progress

\* api.py lines 28-35: compositing follows the background generation
ApiAfterBackground ==
    /\ pc = "bg_returned"
    /\ orchestrator = "api"
    /\ stage_log' = Append(stage_log, BackgroundStage)
    /\ pc' = "composite"
    /\ UNCHANGED <<final_file, fg_file, run, orchestrator, composite_bg, response>>
    /\ UNCHANGED <<probeVars, genVars, selectVars, poolVars, combineVars>>
    /\ UNCHANGED progress

\* greenv7.py lines 440-443
MainFinish ==
    /\ pc = "composited"
    /\ orchestrator = "main"
    /\ response' = IF final_file # None THEN "completed" ELSE "failed"
    /\ pc' = "idle"
    /\ UNCHANGED <<final_file, fg_file, run, orchestrator, stage_log, composite_bg>>
    /\ UNCHANGED <<probeVars, genVars, selectVars, poolVars, combineVars>>
    /\ UNCHANGED progress

\* api.py line 42
ApiReturn ==
    /\ pc = "composited"
    /\ orchestrator = "api"
    /\ response' = "Video generated"
    /\ pc' = "idle"
    /\ UNCHANGED <<final_file, fg_file, run, orchestrator, stage_log, composite_bg>>
    /\ UNCHANGED <<probeVars, genVars, selectVars, poolVars, combineVars>>
    /\ UNCHANGED progress

NextPipeline ==
    \/ RunStart
    \/ MainCategoryMissing
    \/ MainProbe
    \/ ApiProbe
    \/ CombineSelect
    \/ CombineNoInput
    \/ CombineStartConvert
    \/ Submit
    \/ WorkerStart
    \/ WorkerFinish
    \/ Collect
    \/ ConvertReturn
    \/ CombineNoConverted
    \/ CombineWriteManifest
    \/ CombineConcat
    \/ MainCheckBackground
    \/ ApiAfterBackground
    \/ Composite
    \/ MainFinish
    \/ ApiReturn
SpecPipeline == InitPipeline /\ [][NextPipeline]_vars

Invoked(stage) == \E i \in DOMAIN stage_log : stage_log[i].stage = stage

\* a stage that went past its own missing-file checks
DidWork(entry) == entry.outcome \notin {"fg_missing", "bg_missing"}

\* C3 (as claimed): in both orchestrators no stage is executed after a
\* stage of the run has failed, and compositing is only invoked with a
\* background that the background generation of the run has produced.  A
\* compositing call that stops at its own missing-file check is counted as
\* not executed.
C3_StopOnFailure ==
    /\ \A i, j \in DOMAIN stage_log :
          (i < j /\ DidWork(stage_log[j])) => stage_log[i].outcome = "ok"
    /\ \A j \in DOMAIN stage_log :
          (stage_log[j].stage = "composite" /\ DidWork(stage_log[j])) =>
              /\ bg_outcome = "ok"
              /\ composite_bg[1][1].run = run

\* C9 (as claimed): POST /generate answers "Video generated" only when
\* every stage of the request succeeded and compositing wrote
\* final_output.mp4 during the request.
C9_SuccessMeansGenerated ==
    (orchestrator = "api" /\ response = "Video generated") =>
        /\ \A i \in DOMAIN stage_log : stage_log[i].outcome = "ok"
        /\ Invoked("composite")
        /\ final_file # None
        /\ final_file[1].run = run
        /\ final_file[1].complete

(***************************************************************************)
(* Section 7: _parse_ffmpeg_progress and the code that calls it            *)
(*                                                                         *)
(* frame_rate is held in hundredths of a frame per second (29.97 is 2997), *)
(* so total_duration * frame_rate is held in hundredths of a frame.  A     *)
(* line of the stream is a sequence of characters, "f" standing for the    *)
(* text frame= ; how the written line is padded is left out.               *)
(***************************************************************************)
Chars == {"f", " ", "1", "2"}
Digits == {"1", "2"}
Lines == UNION {[1..n -> Chars] : n \in 0..MaxLineLen}
TotalDurations == {-1, 0, 2}
FrameRates == {-3000, 0, 2997, 3000}

P == progress[1]

\* line 196: strip()
RECURSIVE Strip(_)
Strip(line) ==
    IF line = <<>> THEN line
    ELSE IF Head(line) = " " THEN Strip(Tail(line))
    ELSE IF line[Len(line)] = " " THEN Strip(SubSeq(line, 1, Len(line) - 1))
    ELSE line

\* line 201: int() of a string of digits
RECURSIVE Decimal(_)
Decimal(digits) ==
    IF digits = <<>> THEN 0
    ELSE 10 * Decimal(SubSeq(digits, 1, Len(digits) - 1))
         + (IF digits[Len(digits)] = "1" THEN 1 ELSE 2)

\* the longest run of characters of the set that starts at position j
RECURSIVE RunEnd(_, _, _)
RunEnd(line, j, set) ==
    IF j <= Len(line) /\ line[j] \in set THEN RunEnd(line, j + 1, set) ELSE j

\* lines 190 and 198: frame_re.search(line), the leftmost match of
\* frame=\s*(\d+) at or after position i; the value of group 1, or None
RECURSIVE Search(_, _)
Search(line, i) ==
    IF i > Len(line) THEN None
    ELSE LET j == RunEnd(line, i + 1, {" "})
             k == RunEnd(line, j, Digits)
         IN  IF line[i] = "f" /\ k > j
             THEN Some(Decimal(SubSeq(line, j, k - 1)))
             ELSE Search(line, i + 1)

\* line 193: int() of a float drops the fraction, towards zero
FloorOf(hundredths) == hundredths \div 100
IntOf(hundredths) ==
    IF hundredths >= 0 THEN hundredths \div 100 ELSE -((-hundredths) \div 100)

\* line 193
TotalFrames(total_duration, frame_rate) ==
    IF frame_rate > 0 THEN IntOf(total_duration * frame_rate) ELSE 0

\* a / b as the fraction <<a, b>>; None is ZeroDivisionError
Divide(a, b) == IF b = 0 THEN None ELSE Some(<<a, b>>)

\* line 203: the test that guards the division
HasTotal(total_frames) == total_frames > 0

\* line 203
ProgressPercent(current_frame, total_frames) ==
    IF HasTotal(total_frames) THEN Divide(current_frame * 100, total_frames)
    ELSE Some(<<0, 1>>)

\* lines 274 and 351: the encoder has been started, and the parser is called
InitProgress ==
    /\ pc = "progress_start"
    /\ progress \in
         {Some([total_duration |-> d, frame_rate |-> r, total_frames |-> 0,
                lines_read |-> 0, line |-> <<>>, update |-> None, n_updates |-> 0,
                eof |-> FALSE, returncode |-> None]) :
            d \in TotalDurations, r \in FrameRates}
    /\ IdleProbe /\ IdleGen /\ IdleSelect /\ IdlePool /\ IdleCombine /\ IdlePipe

OthersUnchanged ==
    UNCHANGED <<probeVars, genVars, selectVars, poolVars, combineVars, pipeVars>>

\* lines 190-193
ProgressEnter ==
    /\ pc = "progress_start"
    /\ progress' = Some([P EXCEPT
                            !.total_frames = TotalFrames(P.total_duration, P.frame_rate)])
    /\ pc' = "progress_loop"
    /\ OthersUnchanged

\* lines 195-208: the encoder writes a line, and the loop body handles it
ProgressLine ==
    /\ pc = "progress_loop"
    /\ P.lines_read < MaxLines
    /\ \E raw \in Lines :
         LET frame_match == Search(Strip(raw), 1)
             percent == IF frame_match = None THEN None
                        ELSE ProgressPercent(frame_match[1], P.total_frames)
         IN  IF frame_match = None
             THEN /\ progress' = Some([P EXCEPT !.lines_read = @ + 1, !.line = raw,
                                                !.update = None])
                  /\ UNCHANGED pc
             ELSE IF percent = None
             THEN /\ progress' = Some([P EXCEPT !.lines_read = @ + 1, !.line = raw,
                                                !.update = None])
                  /\ pc' = "progress_raised"
             ELSE /\ progress' =
                        Some([P EXCEPT !.lines_read = @ + 1, !.line = raw,
                                       !.n_updates = @ + 1,
                                       !.update = Some([current_frame |-> frame_match[1],
                                                        total_frames |-> P.total_frames,
                                                        percent |-> percent[1]])])
                  /\ UNCHANGED pc
    /\ OthersUnchanged

\* lines 195 and 210-211: the stream has ended, the loop ends and the
\* parser returns
ProgressEof ==
    /\ pc = "progress_loop"
    /\ progress' = Some([P EXCEPT !.eof = TRUE])
    /\ pc' = "progress_returned"
    /\ OthersUnchanged

\* lines 278-279 and 355-356: process.communicate(), then the exit code
Communicate ==
    /\ pc = "progress_returned"
    /\ \E code \in {0, 1} : progress' = Some([P EXCEPT !.returncode = Some(code)])
    /\ pc' = "exit_code_read"
    /\ OthersUnchanged

NextProgress == ProgressEnter \/ ProgressLine \/ ProgressEof \/ Communicate
SpecProgress == InitProgress /\ [][NextProgress]_vars

\* the places <<i, j, k>> of a line where frame= stands at i, only blanks
\* lie between it and j, and j..k is a longest run of digits
FramePlaces(line) ==
    {t \in (1..Len(line)) \X (1..Len(line)) \X (1..Len(line)) :
        /\ t[1] < t[2] /\ t[2] <= t[3]
        /\ line[t[1]] = "f"
        /\ \A m \in (t[1] + 1)..(t[2] - 1) : line[m] = " "
        /\ \A m \in t[2]..t[3] : line[m] \in Digits
        /\ (t[3] = Len(line) \/ line[t[3] + 1] \notin Digits)}
FirstPlace(line) ==
    CHOOSE t \in FramePlaces(line) : \A u \in FramePlaces(line) : t[1] <= u[1]
FrameCount(line) ==
    LET t == FirstPlace(line) IN Decimal(SubSeq(line, t[2], t[3]))

\* what the last line read has to have produced, given the total
ReportsLastLine(total) ==
    P.lines_read > 0 =>
        IF FramePlaces(P.line) = {}
        THEN P.update = None
        ELSE /\ P.update # None
             /\ P.update[1].current_frame = FrameCount(P.line)
             /\ P.update[1].total_frames = total
             /\ P.update[1].percent =
                   (IF total > 0 THEN <<100 * FrameCount(P.line), total>> ELSE <<0, 1>>)

OneUpdatePerFrameLine ==
    (pc = "progress_loop" /\ progress' # progress /\ pc' # "progress_returned") =>
        progress'[1].n_updates - P.n_updates =
            (IF FramePlaces(progress'[1].line) = {} THEN 0 ELSE 1)

ReturnsBeforeExitCode ==
    /\ P.returncode # None => (pc = "exit_code_read" /\ P.eof)
    /\ P.eof <=> pc \in {"progress_returned", "exit_code_read"}

Entered == pc \notin {"progress_start"}

====
